---- MODULE Spec2Model ----
(***************************************************************************)
(* KemoFox-Tunnel coordinator (src/server.js, the sqlite-backed server of  *)
(* lines 162-463): the tunnel registry, the tunnels / api_keys tables, the *)
(* per-tunnel net.Server listeners and the relayed connections.  Lines     *)
(* 1-160 hold the earlier file-backed revision of the same handlers: it    *)
(* has no tunnels table, so its register and stop run in one step each.    *)
(*                                                                         *)
(* One action is one run-to-completion step of the Node event loop: a      *)
(* request handler up to its first suspension, the continuation of an      *)
(* await, the execution of a database statement, a database callback, or   *)
(* a socket event.                                                         *)
(*                                                                         *)
(* Spec is the control plane with every input and persistence fault,       *)
(* ConfigSpec the same under every configuration, FairSpec the forwarding  *)
(* service with the socket events of its connections, ByteSpec one         *)
(* tunnel's relay followed byte by byte.                                   *)
(***************************************************************************)
EXTENDS Naturals, Integers, FiniteSets, Sequences, TLC

VARIABLES
    apiKeys,     \* ids stored in table api_keys
    tunnels,     \* the in-memory registry `tunnels` (id -> record)
    dbTunnels,   \* rows of table tunnels (id -> row)
    listeners,   \* bound net.Server listeners (id -> port)
    regs,        \* /register requests suspended inside the handler
    stops,       \* /stop requests waiting for their DELETE
    nextId,      \* the next value uuidv4() returns
    conns,       \* connections accepted by the listeners
    crashed,     \* the process died of an uncaught exception
    resp,        \* the request the last step handled and the response it
                 \* sent (code 0: none yet; NoResp: not a request step)
    regOk,       \* history: what each successful /register answered
    stopOk,      \* history: ids whose /stop answered 200
    closeCount,  \* history: number of server.close() calls per id
    config       \* config.json as loaded at start-up

vars == <<config, apiKeys, tunnels, dbTunnels, listeners, regs, stops, nextId,
          conns, crashed, resp, regOk, stopOk, closeCount>>

----------------------------------------------------------------------------
(* Bounds *)

\* number of tunnel ids uuidv4() hands out in one run
MaxTunnels == 2

\* number of inbound connections accepted in one run
MaxConns == 2

\* number of bytes each peer of a connection sends
MaxBytes == 2

\* number of connections whose bytes are followed
MaxByteConns == 1

----------------------------------------------------------------------------
(* Configuration and input values *)

\* config.initialPublicPort of the deployment
initialPublicPort == 9000

\* the largest port number server.listen() takes
MaxPort == 65535

\* the configurations the model starts with: the deployment's, and one
\* whose base port is the last port of the range
ConfigInputs ==
    {[initialPublicPort |-> initialPublicPort], [initialPublicPort |-> MaxPort]}

Keys == {"k1", "k2"}

\* a missing apiKey (undefined or ""), which `!apiKey` rejects
NoKey == ""

\* the order in which uuidv4() hands the keys out
KeyOrder(k) == IF k = "k1" THEN 1 ELSE 2

ApiKeyInputs == Keys \cup {NoKey}

\* the apiKeys the register requests of the model carry: none, and the
\* first key (unknown until it is generated); the second key only stops
RegisterKeyInputs == {NoKey, "k1"}

Ids == 1..MaxTunnels

\* a missing tunnelId in the request body
NoId == 0

ConnIds == 1..MaxConns

ByteConnIds == 1..MaxByteConns

\* the values of a byte
Bytes == {"a", "b"}

\* JSON values a request can carry as localPort
Absent == [t |-> "absent", v |-> 0]

Num(n) == [t |-> "num", v |-> n]

\* the string whose text is the decimal numeral of n
Str(n) == [t |-> "str", v |-> n]

\* the localPort values the requests of the model carry: none, the falsy
\* number 0, a port number
LocalPortInputs == {Absent, Num(0), Num(8080)}

\* mutant of Falsy: the test misses an absent localPort
Falsy_ZeroOnly(lp) == lp.t = "num" /\ lp.v = 0

\* JavaScript `!localPort`
Falsy(lp) == lp.t = "absent" \/ (lp.t = "num" /\ lp.v = 0)

\* what column local_port INTEGER stores for a bound value
IntegerAffinity(lp) == IF lp.t = "str" THEN Num(lp.v) ELSE lp

\* `https://kemofox.onrender.com/${tunnelId}`
PublicAddress(tunnelId) == [host |-> "kemofox.onrender.com", path |-> tunnelId]

NoAddress == [host |-> "", path |-> NoId]

----------------------------------------------------------------------------
(* Helpers on maps *)

Put(f, k, v) == [x \in (DOMAIN f) \cup {k} |-> IF x = k THEN v ELSE f[x]]

Del(f, k) == [x \in (DOMAIN f) \ {k} |-> f[x]]

Empty == [x \in {} |-> 0]

Range(f) == {f[x] : x \in DOMAIN f}

----------------------------------------------------------------------------
(* Responses *)

\* step, reqKey, reqId, reqPort, fault: the step, its request and the
\* persistence fault injected into it; code, tunnelId, publicAddress,
\* localPort: the status and the body of the response
NoResp == [step |-> "none", code |-> 0, reqKey |-> NoKey, reqId |-> NoId,
           reqPort |-> Absent, fault |-> FALSE, tunnelId |-> NoId,
           publicAddress |-> NoAddress, localPort |-> Absent]

\* res.status(code).json({error}); code 0 when the handler suspends
\* without answering
ErrorResp(step, code, key, id, lp, fault) ==
    [NoResp EXCEPT !.step = step, !.code = code, !.reqKey = key, !.reqId = id,
                   !.reqPort = lp, !.fault = fault]

\* validateApiKey consults the database only for a key that is present
LookupFault(apiKey, dbErr) == apiKey # NoKey /\ dbErr

\* the outcomes of validateApiKey's db.get: an error only if it is called
LookupFaults(apiKey) == IF apiKey = NoKey THEN {FALSE} ELSE BOOLEAN

\* res.json({...}) of /register
RegisterOkResp(key, lp, id) ==
    [NoResp EXCEPT !.step = "RegisterCallback", !.code = 200, !.reqKey = key,
                   !.reqId = id, !.reqPort = lp, !.tunnelId = id,
                   !.publicAddress = PublicAddress(id)]

\* res.json({...}) of GET /:tunnelId
StatusOkResp(id, row) ==
    [NoResp EXCEPT !.step = "Status", !.code = 200, !.reqId = id,
                   !.tunnelId = id, !.publicAddress = PublicAddress(id),
                   !.localPort = row.local_port]

----------------------------------------------------------------------------
(* Initial state: empty database file, nothing registered *)

InitWith(cfg) ==
    /\ config = cfg
    /\ apiKeys = {}
    /\ tunnels = Empty
    /\ dbTunnels = Empty
    /\ listeners = Empty
    /\ regs = Empty
    /\ stops = Empty
    /\ nextId = 1
    /\ conns = Empty
    /\ crashed = FALSE
    /\ resp = NoResp
    /\ regOk = Empty
    /\ stopOk = {}
    /\ closeCount = [i \in Ids |-> 0]

Init == InitWith([initialPublicPort |-> initialPublicPort])

\* the same, started with any of the configurations
ConfigInit == \E cfg \in ConfigInputs : InitWith(cfg)

----------------------------------------------------------------------------
(* validateApiKey: the status it answers, 0 when it calls next() *)

\* mutant of ValidateApiKey: the api_keys table is not consulted
ValidateApiKey_NoLookup(apiKey, dbErr) ==
    IF apiKey = NoKey THEN 403 ELSE 0

ValidateApiKey(apiKey, dbErr) ==
    IF apiKey = NoKey THEN 403
    ELSE IF dbErr \/ apiKey \notin apiKeys THEN 403
    ELSE 0

\* mutant of ComputePublicPort: every tunnel gets the base port
ComputePublicPort_Base == config.initialPublicPort

\* config.initialPublicPort + Object.keys(tunnels).length
ComputePublicPort ==
    config.initialPublicPort + Cardinality(DOMAIN tunnels)

\* the registry entry written by /register
TunnelEntry(r) ==
    [localPort |-> r.localPort, publicPort |-> r.publicPort,
     apiKey |-> r.apiKey, server |-> FALSE]

\* mutant of TunnelRow: the two port parameters are bound in swapped order
TunnelRow_Swapped(r) ==
    [local_port |-> IntegerAffinity(Num(r.publicPort)),
     public_port |-> r.localPort.v, api_key |-> r.apiKey]

\* the row INSERT INTO tunnels stores
TunnelRow(r) ==
    [local_port |-> IntegerAffinity(r.localPort),
     public_port |-> r.publicPort, api_key |-> r.apiKey]

\* server.listen(publicPort) succeeds: the port is a port number, the OS
\* grants it and no listener of this process holds it
BindSucceeds(port, osOk) ==
    osOk /\ port <= MaxPort /\ port \notin Range(listeners)

\* an uncaught exception or unhandled 'error' event ends the process: the
\* memory, the listeners and the sockets are gone, the database file stays
ProcessExit ==
    /\ crashed' = TRUE
    /\ tunnels' = Empty
    /\ listeners' = Empty
    /\ regs' = Empty
    /\ stops' = Empty
    /\ conns' = Empty

----------------------------------------------------------------------------
(* POST /generate-api-key *)

GenerateApiKey(user, k, dbOk) ==
    /\ ~crashed
    /\ k \notin apiKeys
    /\ \A j \in Keys \ apiKeys : KeyOrder(k) <= KeyOrder(j)
    /\ IF user = ""
         THEN /\ resp' = ErrorResp("GenerateApiKey", 400, NoKey, NoId, Absent, FALSE)
              /\ UNCHANGED apiKeys
         ELSE IF dbOk
           THEN /\ apiKeys' = apiKeys \cup {k}
                /\ resp' = [NoResp EXCEPT !.step = "GenerateApiKey",
                                          !.code = 200, !.reqKey = k]
           ELSE /\ resp' = ErrorResp("GenerateApiKey", 500, NoKey, NoId, Absent, TRUE)
                /\ UNCHANGED apiKeys
    /\ UNCHANGED <<config, tunnels, dbTunnels, listeners, regs, stops, nextId,
                   conns, crashed, regOk, stopOk, closeCount>>

----------------------------------------------------------------------------
(* POST /register *)

\* validateApiKey's callback and the handler up to `await getExternalIP()`
RegisterStart(apiKey, localPort, dbErr) ==
    /\ ~crashed
    /\ LET v == ValidateApiKey(apiKey, dbErr) IN
       IF v # 0
         THEN /\ resp' = ErrorResp("RegisterStart", v, apiKey, NoId, localPort,
                                   LookupFault(apiKey, dbErr))
              /\ UNCHANGED <<regs, nextId>>
         ELSE IF Falsy(localPort)
           THEN /\ resp' = ErrorResp("RegisterStart", 400, apiKey, NoId,
                                      localPort, dbErr)
                /\ UNCHANGED <<regs, nextId>>
           ELSE /\ nextId <= MaxTunnels
                /\ regs' = Put(regs, nextId,
                               [pc |-> "awaitIP", localPort |-> localPort,
                                publicPort |-> ComputePublicPort,
                                apiKey |-> apiKey])
                /\ nextId' = nextId + 1
                /\ resp' = ErrorResp("RegisterStart", 0, apiKey, NoId,
                                      localPort, dbErr)
    /\ UNCHANGED <<config, apiKeys, tunnels, dbTunnels, listeners, stops, conns,
                   crashed, regOk, stopOk, closeCount>>

\* the continuation after `await getExternalIP()`: registry entry, db.run
RegisterResume(id) ==
    /\ ~crashed
    /\ id \in DOMAIN regs
    /\ regs[id].pc = "awaitIP"
    /\ tunnels' = Put(tunnels, id, TunnelEntry(regs[id]))
    /\ regs' = [regs EXCEPT ![id].pc = "inserting"]
    /\ resp' = NoResp
    /\ UNCHANGED <<config, apiKeys, dbTunnels, listeners, stops, nextId, conns,
                   crashed, regOk, stopOk, closeCount>>

\* the database executes the INSERT
DbInsert(id, dbOk) ==
    /\ ~crashed
    /\ id \in DOMAIN regs
    /\ regs[id].pc = "inserting"
    /\ IF dbOk /\ id \notin DOMAIN dbTunnels
         THEN /\ dbTunnels' = Put(dbTunnels, id, TunnelRow(regs[id]))
              /\ regs' = [regs EXCEPT ![id].pc = "inserted"]
         ELSE /\ regs' = [regs EXCEPT ![id].pc = "insertErr"]
              /\ UNCHANGED dbTunnels
    /\ resp' = NoResp
    /\ UNCHANGED <<config, apiKeys, tunnels, listeners, stops, nextId, conns,
                   crashed, regOk, stopOk, closeCount>>

\* startForwarding(tunnelId) and the tick after it
StartForwarding(id, osOk) ==
    IF id \notin DOMAIN tunnels
      THEN \* destructuring undefined throws inside the db callback
           ProcessExit
      ELSE IF BindSucceeds(tunnels[id].publicPort, osOk)
        THEN /\ listeners' = Put(listeners, id, tunnels[id].publicPort)
             /\ tunnels' = [tunnels EXCEPT ![id].server = TRUE]
             /\ regs' = Del(regs, id)
             /\ UNCHANGED <<stops, conns, crashed>>
        ELSE \* listen() throws on a port out of range, or 'error' is emitted
             \* on a server that has no 'error' listener
             ProcessExit

\* the callback of db.run(INSERT ...)
RegisterCallback(id, osOk) ==
    /\ ~crashed
    /\ id \in DOMAIN regs
    /\ regs[id].pc \in {"inserted", "insertErr"}
    /\ IF regs[id].pc = "insertErr"
         THEN /\ resp' = ErrorResp("RegisterCallback", 500, regs[id].apiKey,
                                   id, regs[id].localPort, TRUE)
              /\ regs' = Del(regs, id)
              /\ UNCHANGED <<tunnels, listeners, stops, conns, crashed, regOk>>
         ELSE /\ resp' = RegisterOkResp(regs[id].apiKey, regs[id].localPort, id)
              /\ regOk' = Put(regOk, id,
                              [apiKey |-> regs[id].apiKey,
                               localPort |-> regs[id].localPort,
                               publicAddress |-> PublicAddress(id)])
              /\ StartForwarding(id, osOk)
    /\ UNCHANGED <<config, apiKeys, dbTunnels, nextId, stopOk, closeCount>>

----------------------------------------------------------------------------
(* POST /stop *)

\* mutant of OwnsTunnel: the ownership test is left out
OwnsTunnel_Any(tunnelId, apiKey) == TRUE

\* tunnel.apiKey !== apiKey, negated
OwnsTunnel(tunnelId, apiKey) == tunnels[tunnelId].apiKey = apiKey

\* mutant of StopTunnel: the server is never closed
StopTunnel_NoClose(tunnelId) ==
    /\ UNCHANGED <<closeCount, listeners>>
    /\ tunnels' = Del(tunnels, tunnelId)

\* tunnel.server.close(); delete tunnels[tunnelId]
StopTunnel(tunnelId) ==
    /\ closeCount' = [closeCount EXCEPT ![tunnelId] = @ + 1]
    /\ listeners' = Del(listeners, tunnelId)
    /\ tunnels' = Del(tunnels, tunnelId)

\* validateApiKey's callback and the handler up to db.run(DELETE ...)
Stop(apiKey, tunnelId, dbErr) ==
    /\ ~crashed
    /\ LET v == ValidateApiKey(apiKey, dbErr) IN
       IF v # 0
         THEN /\ resp' = ErrorResp("Stop", v, apiKey, tunnelId, Absent,
                                   LookupFault(apiKey, dbErr))
              /\ UNCHANGED <<tunnels, listeners, stops, closeCount>>
       ELSE IF tunnelId = NoId
         THEN /\ resp' = ErrorResp("Stop", 400, apiKey, tunnelId, Absent,
                                   LookupFault(apiKey, dbErr))
              /\ UNCHANGED <<tunnels, listeners, stops, closeCount>>
       ELSE IF tunnelId \notin DOMAIN tunnels
         THEN /\ resp' = ErrorResp("Stop", 404, apiKey, tunnelId, Absent,
                                   LookupFault(apiKey, dbErr))
              /\ UNCHANGED <<tunnels, listeners, stops, closeCount>>
       ELSE IF ~OwnsTunnel(tunnelId, apiKey)
         THEN /\ resp' = ErrorResp("Stop", 403, apiKey, tunnelId, Absent,
                                   LookupFault(apiKey, dbErr))
              /\ UNCHANGED <<tunnels, listeners, stops, closeCount>>
       ELSE IF ~tunnels[tunnelId].server
         THEN \* tunnel.server is undefined: .close() throws a TypeError,
              \* which the router catches and answers with 500
              /\ resp' = ErrorResp("Stop", 500, apiKey, tunnelId, Absent,
                                   LookupFault(apiKey, dbErr))
              /\ UNCHANGED <<tunnels, listeners, stops, closeCount>>
         ELSE /\ StopTunnel(tunnelId)
              /\ stops' = Put(stops, tunnelId,
                               [pc |-> "deleting", apiKey |-> apiKey])
              /\ resp' = ErrorResp("Stop", 0, apiKey, tunnelId, Absent,
                                   LookupFault(apiKey, dbErr))
    /\ UNCHANGED <<config, apiKeys, dbTunnels, regs, nextId, conns, crashed,
                   regOk, stopOk>>

\* mutant of DeleteRow: the statement matches no row
DeleteRow_NoMatch(id) == dbTunnels

\* DELETE FROM tunnels WHERE id = ?
DeleteRow(id) == Del(dbTunnels, id)

\* the database executes the DELETE
DbDelete(id, dbOk) ==
    /\ ~crashed
    /\ id \in DOMAIN stops
    /\ stops[id].pc = "deleting"
    /\ IF dbOk
         THEN /\ dbTunnels' = DeleteRow(id)
              /\ stops' = [stops EXCEPT ![id].pc = "deleted"]
         ELSE /\ stops' = [stops EXCEPT ![id].pc = "deleteErr"]
              /\ UNCHANGED dbTunnels
    /\ resp' = NoResp
    /\ UNCHANGED <<config, apiKeys, tunnels, listeners, regs, nextId, conns,
                   crashed, regOk, stopOk, closeCount>>

\* the callback of db.run(DELETE ...)
StopCallback(id) ==
    /\ ~crashed
    /\ id \in DOMAIN stops
    /\ stops[id].pc \in {"deleted", "deleteErr"}
    /\ IF stops[id].pc = "deleteErr"
         THEN /\ resp' = ErrorResp("StopCallback", 500, stops[id].apiKey, id, Absent,
                                   TRUE)
              /\ UNCHANGED stopOk
         ELSE /\ resp' = ErrorResp("StopCallback", 200, stops[id].apiKey, id, Absent,
                                   FALSE)
              /\ stopOk' = stopOk \cup {id}
    /\ stops' = Del(stops, id)
    /\ UNCHANGED <<config, apiKeys, tunnels, dbTunnels, listeners, regs,
                   nextId, conns, crashed, regOk, closeCount>>

----------------------------------------------------------------------------
(* GET /:tunnelId *)

Status(tunnelId, dbErr) ==
    /\ ~crashed
    /\ resp' = IF dbErr \/ tunnelId \notin DOMAIN dbTunnels
                 THEN ErrorResp("Status", 404, NoKey, tunnelId, Absent, dbErr)
                 ELSE StatusOkResp(tunnelId, dbTunnels[tunnelId])
    /\ UNCHANGED <<config, apiKeys, tunnels, dbTunnels, listeners, regs,
                   stops, nextId, conns, crashed, regOk, stopOk, closeCount>>

----------------------------------------------------------------------------
(* The connection handler of net.createServer *)

\* the state of one net.Socket (allowHalfOpen is false):
\*   "connecting"  net.connect() has not called back yet (client only)
\*   "open"        readable and writable
\*   "fin"         the peer's FIN has arrived behind bytes not yet consumed,
\*                 'end' is due once they are; still writable
\*   "ended"       end() was called on it, the peer may still send
\*   "endedfin"    end() was called on it and 'end' is due
\*   "closed"      'end' was emitted: the socket ended itself and closed
\*   "failed"      'error' was emitted: the socket is destroyed
CanRead(s) == s \in {"open", "ended"}

CanWrite(s) == s \in {"open", "fin"}

HasReadable(s) == s \in {"open", "fin", "ended", "endedfin"}

\* the peer's FIN arrives while bytes are still buffered
OnFin(s) == IF s = "open" THEN "fin" ELSE "endedfin"

\* pipe calls dest.end() on the socket when its source emits 'end'
OnDestEnd(s) ==
    IF s = "open" THEN "ended"
    ELSE IF s = "fin" THEN "endedfin"
    ELSE s

\* one direction of a relay: the bytes received on the source socket and
\* the bytes written to the destination socket
NoBytes == [rcvd |-> << >>, dlvd |-> << >>]

Drained(d) == Len(d.dlvd) = Len(d.rcvd)

\* src.on('data', chunk => dest.write(chunk)) of src.pipe(dest)
PipeChunk(d) ==
    [d EXCEPT !.dlvd = Append(@, d.rcvd[Len(d.dlvd) + 1])]

\* socket emits 'end': it closes, and an installed pipe ends the client
InboundEnd(cn) ==
    [cn EXCEPT !.inbound = "closed", !.outbound = OnDestEnd(@)]

\* client emits 'end': it closes, and the pipe ends the socket
OutboundEnd(cn) ==
    [cn EXCEPT !.outbound = "closed", !.inbound = OnDestEnd(@)]

\* an inbound connection arrives: net.connect(localPort, 'localhost', ...)
Accept(c, id) ==
    /\ ~crashed
    /\ id \in DOMAIN listeners
    /\ c \notin DOMAIN conns
    /\ c = Cardinality(DOMAIN conns) + 1
    /\ conns' = Put(conns, c, [tunnel |-> id, piped |-> FALSE,
                               inbound |-> "open", outbound |-> "connecting",
                               up |-> NoBytes, down |-> NoBytes])
    /\ resp' = NoResp
    /\ UNCHANGED <<config, apiKeys, tunnels, dbTunnels, listeners, regs,
                   stops, nextId, crashed, regOk, stopOk, closeCount>>

\* the connect callback: socket.pipe(client); client.pipe(socket); a
\* source that has emitted 'end' already ends its destination at once
ConnectOk(c) ==
    /\ ~crashed
    /\ c \in DOMAIN conns
    /\ conns[c].outbound = "connecting"
    /\ conns' = [conns EXCEPT ![c].piped = TRUE,
                              ![c].outbound = IF conns[c].inbound = "closed"
                                                THEN "ended" ELSE "open"]
    /\ resp' = NoResp
    /\ UNCHANGED <<config, apiKeys, tunnels, dbTunnels, listeners, regs,
                   stops, nextId, crashed, regOk, stopOk, closeCount>>

\* what client.on('error') does to the connection: it logs
ClientError(cn) == [cn EXCEPT !.outbound = "failed"]

\* the outbound connection fails: client emits 'error'
ConnectFail(c) ==
    /\ ~crashed
    /\ c \in DOMAIN conns
    /\ conns[c].outbound = "connecting"
    /\ conns' = [conns EXCEPT ![c] = ClientError(@)]
    /\ resp' = NoResp
    /\ UNCHANGED <<config, apiKeys, tunnels, dbTunnels, listeners, regs,
                   stops, nextId, crashed, regOk, stopOk, closeCount>>

\* the established outbound connection breaks: client emits 'error'
OutboundError(c) ==
    /\ ~crashed
    /\ c \in DOMAIN conns
    /\ HasReadable(conns[c].outbound)
    /\ conns' = [conns EXCEPT ![c] = ClientError(@)]
    /\ resp' = NoResp
    /\ UNCHANGED <<config, apiKeys, tunnels, dbTunnels, listeners, regs,
                   stops, nextId, crashed, regOk, stopOk, closeCount>>

\* mutant of SocketError: the handler destroys every inbound socket
SocketError_All(c) ==
    [d \in DOMAIN conns |-> [conns[d] EXCEPT !.inbound = "failed"]]

\* what socket.on('error') leaves of the connections: it logs, and the
\* socket that emitted the error is destroyed
SocketError(c) == [conns EXCEPT ![c].inbound = "failed"]

\* the inbound connection breaks: socket emits 'error'
InboundError(c) ==
    /\ ~crashed
    /\ c \in DOMAIN conns
    /\ HasReadable(conns[c].inbound)
    /\ conns' = SocketError(c)
    /\ resp' = NoResp
    /\ UNCHANGED <<config, apiKeys, tunnels, dbTunnels, listeners, regs,
                   stops, nextId, crashed, regOk, stopOk, closeCount>>

\* the public peer ends its sending direction: socket emits 'end' as soon
\* as every byte received before the FIN is consumed
PeerClose(c) ==
    /\ ~crashed
    /\ c \in DOMAIN conns
    /\ CanRead(conns[c].inbound)
    /\ conns' = [conns EXCEPT ![c] =
                    IF Drained(@.up) THEN InboundEnd(@)
                    ELSE [@ EXCEPT !.inbound = OnFin(@)]]
    /\ resp' = NoResp
    /\ UNCHANGED <<config, apiKeys, tunnels, dbTunnels, listeners, regs,
                   stops, nextId, crashed, regOk, stopOk, closeCount>>

\* the local service ends its sending direction: client emits 'end' as
\* soon as every byte received before the FIN is consumed
LocalClose(c) ==
    /\ ~crashed
    /\ c \in DOMAIN conns
    /\ CanRead(conns[c].outbound)
    /\ conns' = [conns EXCEPT ![c] =
                    IF Drained(@.down) THEN OutboundEnd(@)
                    ELSE [@ EXCEPT !.outbound = OnFin(@)]]
    /\ resp' = NoResp
    /\ UNCHANGED <<config, apiKeys, tunnels, dbTunnels, listeners, regs,
                   stops, nextId, crashed, regOk, stopOk, closeCount>>

\* the public peer sends a byte: it is buffered in socket, which is paused
\* until the pipe is installed
PublicSend(c, b) ==
    /\ ~crashed
    /\ c \in DOMAIN conns
    /\ CanRead(conns[c].inbound)
    /\ Len(conns[c].up.rcvd) < MaxBytes
    /\ conns' = [conns EXCEPT ![c].up.rcvd = Append(@, b)]
    /\ resp' = NoResp
    /\ UNCHANGED <<config, apiKeys, tunnels, dbTunnels, listeners, regs,
                   stops, nextId, crashed, regOk, stopOk, closeCount>>

\* the local service sends a byte
LocalSend(c, b) ==
    /\ ~crashed
    /\ c \in DOMAIN conns
    /\ CanRead(conns[c].outbound)
    /\ Len(conns[c].down.rcvd) < MaxBytes
    /\ conns' = [conns EXCEPT ![c].down.rcvd = Append(@, b)]
    /\ resp' = NoResp
    /\ UNCHANGED <<config, apiKeys, tunnels, dbTunnels, listeners, regs,
                   stops, nextId, crashed, regOk, stopOk, closeCount>>

\* socket.pipe(client) moves the oldest buffered byte; a source whose
\* destination is no longer writable is unpiped and stays paused
ForwardUp(c) ==
    /\ ~crashed
    /\ c \in DOMAIN conns
    /\ conns[c].piped
    /\ HasReadable(conns[c].inbound)
    /\ CanWrite(conns[c].outbound)
    /\ ~Drained(conns[c].up)
    /\ conns' = [conns EXCEPT ![c] =
                    LET cn == [@ EXCEPT !.up = PipeChunk(@)] IN
                    IF Drained(cn.up) /\ ~CanRead(cn.inbound)
                      THEN InboundEnd(cn) ELSE cn]
    /\ resp' = NoResp
    /\ UNCHANGED <<config, apiKeys, tunnels, dbTunnels, listeners, regs,
                   stops, nextId, crashed, regOk, stopOk, closeCount>>

\* client.pipe(socket) moves the oldest buffered byte
ForwardDown(c) ==
    /\ ~crashed
    /\ c \in DOMAIN conns
    /\ conns[c].piped
    /\ HasReadable(conns[c].outbound)
    /\ CanWrite(conns[c].inbound)
    /\ ~Drained(conns[c].down)
    /\ conns' = [conns EXCEPT ![c] =
                    LET cn == [@ EXCEPT !.down = PipeChunk(@)] IN
                    IF Drained(cn.down) /\ ~CanRead(cn.outbound)
                      THEN OutboundEnd(cn) ELSE cn]
    /\ resp' = NoResp
    /\ UNCHANGED <<config, apiKeys, tunnels, dbTunnels, listeners, regs,
                   stops, nextId, crashed, regOk, stopOk, closeCount>>

----------------------------------------------------------------------------
(* The event loop *)

\* the control plane: the HTTP handlers and their database callbacks
ControlNext ==
    \/ \E user \in {"", "u"}, k \in Keys, dbOk \in BOOLEAN :
          GenerateApiKey(user, k, dbOk)
    \/ \E apiKey \in RegisterKeyInputs, lp \in LocalPortInputs :
          \E dbErr \in LookupFaults(apiKey) : RegisterStart(apiKey, lp, dbErr)
    \/ \E id \in Ids : RegisterResume(id)
    \/ \E id \in Ids, dbOk \in BOOLEAN : DbInsert(id, dbOk)
    \/ \E id \in Ids, osOk \in BOOLEAN : RegisterCallback(id, osOk)
    \/ \E apiKey \in ApiKeyInputs, id \in Ids \cup {NoId} :
          \E dbErr \in LookupFaults(apiKey) : Stop(apiKey, id, dbErr)
    \/ \E id \in Ids, dbOk \in BOOLEAN : DbDelete(id, dbOk)
    \/ \E id \in Ids : StopCallback(id)
    \/ \E id \in Ids, dbErr \in BOOLEAN : Status(id, dbErr)

\* the data plane: the socket events of the forwarders
SocketEvents(C) ==
    \/ \E c \in C, id \in Ids : Accept(c, id)
    \/ \E c \in C : ConnectOk(c)
    \/ \E c \in C : ConnectFail(c)
    \/ \E c \in C : OutboundError(c)
    \/ \E c \in C : InboundError(c)
    \/ \E c \in C : PeerClose(c)
    \/ \E c \in C : LocalClose(c)

\* the bytes the peers send and the pipes move
DataEvents(C) ==
    \/ \E c \in C, b \in Bytes : PublicSend(c, b)
    \/ \E c \in C, b \in Bytes : LocalSend(c, b)
    \/ \E c \in C : ForwardUp(c)
    \/ \E c \in C : ForwardDown(c)

RelayNext == SocketEvents(ConnIds)

Next == ControlNext

Spec == Init /\ [][Next]_vars

\* the control plane under every configuration
ConfigSpec == ConfigInit /\ [][Next]_vars

\* the forwarding service: well-formed requests, a database that answers,
\* and the socket events
ForwardNext ==
    \/ \E k \in Keys : GenerateApiKey("u", k, TRUE)
    \/ \E apiKey \in RegisterKeyInputs \ {NoKey} :
          RegisterStart(apiKey, Num(8080), FALSE)
    \/ \E id \in Ids : RegisterResume(id)
    \/ \E id \in Ids : DbInsert(id, TRUE)
    \/ \E id \in Ids : RegisterCallback(id, TRUE)
    \/ \E apiKey \in Keys, id \in Ids : Stop(apiKey, id, FALSE)
    \/ \E id \in Ids : DbDelete(id, TRUE)
    \/ \E id \in Ids : StopCallback(id)
    \/ RelayNext

\* the event loop runs every continuation, database callback and connect
\* result that is due; requests and peers come when they please
Fairness ==
    /\ WF_vars(\E id \in Ids : RegisterResume(id))
    /\ WF_vars(\E id \in Ids : DbInsert(id, TRUE))
    /\ WF_vars(\E id \in Ids : RegisterCallback(id, TRUE))
    /\ WF_vars(\E id \in Ids : DbDelete(id, TRUE))
    /\ WF_vars(\E id \in Ids : StopCallback(id))
    /\ WF_vars(\E c \in ConnIds : ConnectOk(c) \/ ConnectFail(c))

FairSpec == Init /\ [][ForwardNext]_vars /\ Fairness

\* one tunnel's registration and the relay of its connections byte by byte
ByteNext ==
    \/ GenerateApiKey("u", "k1", TRUE)
    \/ RegisterStart("k1", Num(8080), FALSE)
    \/ \E id \in Ids : RegisterResume(id)
    \/ \E id \in Ids : DbInsert(id, TRUE)
    \/ \E id \in Ids : RegisterCallback(id, TRUE)
    \/ SocketEvents(ByteConnIds)
    \/ DataEvents(ByteConnIds)

\* a flowing pipe moves every byte that is buffered
PipeFairness ==
    \A c \in ByteConnIds : WF_vars(ForwardUp(c)) /\ WF_vars(ForwardDown(c))

\* a peer whose connection the server has ended ends it in turn
PeerFairness ==
    \A c \in ByteConnIds :
        /\ WF_vars(/\ c \in DOMAIN conns
                    /\ conns[c].outbound = "ended"
                    /\ LocalClose(c))
        /\ WF_vars(/\ c \in DOMAIN conns
                    /\ conns[c].inbound = "ended"
                    /\ PeerClose(c))

ByteSpec ==
    Init /\ [][ByteNext]_vars /\ Fairness /\ PipeFairness /\ PeerFairness

----------------------------------------------------------------------------
(* Vocabulary of the properties *)

\* the apiKey of the request passed validateApiKey
Validated(r) == r.reqKey \in apiKeys /\ ~r.fault

\* a localPort the caller sent as a JSON number
ValidLocalPort(lp) == lp.t = "num" /\ lp.v > 0

\* the credential tunnel id was registered with
Owner(id) ==
    IF id \in DOMAIN tunnels THEN tunnels[id].apiKey
    ELSE IF id \in DOMAIN regOk THEN regOk[id].apiKey
    ELSE NoKey

\* the last step answered a status request for a tunnel whose registration
\* had succeeded with a valid localPort and that no stop has removed
StatusOfRegistered ==
    /\ resp.step = "Status"
    /\ resp.reqId \in DOMAIN regOk
    /\ resp.reqId \in DOMAIN tunnels
    /\ ValidLocalPort(regOk[resp.reqId].localPort)

\* the status response repeats what register answered
StatusMatchesRegister ==
    /\ resp.code = 200
    /\ resp.localPort = regOk[resp.reqId].localPort
    /\ resp.publicAddress = regOk[resp.reqId].publicAddress

----------------------------------------------------------------------------
(* Properties *)

\* C1: no two tunnels that are in the registry at the same time hold the
\* same publicPort.
C1_UniquePublicPort ==
    \A a \in DOMAIN tunnels : \A b \in DOMAIN tunnels :
        a # b => tunnels[a].publicPort # tunnels[b].publicPort

\* C2: a tunnel has a registry entry if and only if a listener is bound for
\* it.
C2_ActiveIffListener == DOMAIN tunnels = DOMAIN listeners

\* C3: when the callback that completes a register request has run, either
\* the tunnel is forwarding and the caller got 200, or the caller got an
\* error and the tunnel id is in neither the registry nor the tunnels table
\* and has no listener.
C3_RegisterRollback ==
    resp.step = "RegisterCallback" =>
        IF resp.reqId \in DOMAIN listeners
          THEN resp.code = 200
          ELSE /\ resp.code # 200
               /\ resp.reqId \notin DOMAIN tunnels
               /\ resp.reqId \notin DOMAIN dbTunnels

C5_StopAtMostOnce ==
    /\ [](\A id \in Ids : closeCount[id] <= 1)
    /\ []((resp.step \in {"Stop", "StopCallback"} /\ resp.reqId # NoId
             /\ resp.reqKey # NoKey /\ resp.reqKey = Owner(resp.reqId)
             /\ resp.code # 0)
          => resp.code \in {200, 404})
    /\ [][(resp'.step = "StopCallback" /\ resp'.code = 200 /\ stops' # stops)
          => resp'.reqId \notin stopOk]_vars

\* C6: a register request whose apiKey passes validation and whose localPort
\* is absent answers 400 and changes neither the registry, nor the tunnels
\* table, nor the listeners, nor the requests in flight.
C6_MissingLocalPort ==
    [][(resp'.step = "RegisterStart" /\ resp'.reqPort = Absent
          /\ resp'.reqKey \in apiKeys /\ ~resp'.fault)
       => (resp'.code = 400
           /\ UNCHANGED <<tunnels, dbTunnels, listeners, regs, nextId>>)]_vars

C6_Witness ==
    /\ resp.step = "RegisterStart" /\ resp.code = 400
    /\ resp.reqPort = Absent /\ Validated(resp)
    /\ DOMAIN listeners # {}

C8_NeverCrashes == ~crashed

\* C9: once a stop on a tunnel has answered 200, the tunnel is not in the
\* registry, its row is not in the tunnels table, it has no listener, and
\* every status request for it answers 404.
C9_StoppedIsGone ==
    \A id \in stopOk :
        /\ id \notin DOMAIN tunnels
        /\ id \notin DOMAIN dbTunnels
        /\ id \notin DOMAIN listeners
        /\ (resp.step = "Status" /\ resp.reqId = id) => resp.code = 404

C9_Witness ==
    resp.step = "Status" /\ resp.reqId \in stopOk /\ resp.code = 404 /\ ~resp.fault

\* C10: when the outbound connection of an accepted connection fails, the
\* inbound connection is eventually closed, and the failure leaves the
\* tunnel in the registry with its listener bound.
C10_InboundClosedAfterConnectFail ==
    /\ \A c \in ConnIds :
          (c \in DOMAIN conns /\ conns[c].outbound = "failed")
             ~> (c \notin DOMAIN conns
                   \/ conns[c].inbound \in {"closed", "failed"})
    /\ [][(\E c \in DOMAIN conns :
              c \in DOMAIN conns' /\ conns[c].outbound = "connecting"
                 /\ conns'[c].outbound = "failed")
          => UNCHANGED <<tunnels, listeners>>]_vars

\* C14: a stop that passes validation closes the listener before the DELETE
\* of the tunnel's row is issued: a listener is bound only while the row of
\* its tunnel is in the tunnels table and no DELETE for it is pending, and
\* the step that deletes a row finds the server closed.
C14_CloseBeforeDelete ==
    /\ [](\A id \in DOMAIN listeners :
             id \in DOMAIN dbTunnels /\ id \notin DOMAIN stops)
    /\ [][\A id \in DOMAIN dbTunnels :
             id \notin DOMAIN dbTunnels'
                => (closeCount[id] >= 1 /\ id \notin DOMAIN listeners)]_vars

C14_Witness ==
    \E id \in DOMAIN stops :
        /\ stops[id].pc = "deleted"
        /\ id \notin DOMAIN dbTunnels
        /\ closeCount[id] = 1
        /\ DOMAIN listeners # {}

C19_RegistryEqualsTable ==
    (~crashed /\ regs = Empty /\ stops = Empty)
       => DOMAIN tunnels = DOMAIN dbTunnels

\* C16: no tunnel in the registry has a publicPort outside the range of
\* port numbers, and a register request whose port is outside it does not
\* answer 200.
C16_PortsInRange ==
    /\ [](\A id \in DOMAIN tunnels : tunnels[id].publicPort \in 1..MaxPort)
    /\ [][\A id \in DOMAIN regs :
             (resp'.step = "RegisterCallback" /\ resp'.reqId = id
                /\ resp'.code = 200 /\ regs' # regs)
                => regs[id].publicPort \in 1..MaxPort]_vars

\* C12: no connection is accepted on the listener of a tunnel whose server
\* was closed by a stop, and no step of a stop request changes a connection:
\* the relays established before the stop stay as their sockets left them.
C12_StopKeepsRelays ==
    /\ [][\A c \in ConnIds :
             (c \notin DOMAIN conns /\ c \in DOMAIN conns')
                => (conns'[c].tunnel \notin stopOk
                    /\ closeCount[conns'[c].tunnel] = 0
                    /\ conns'[c].tunnel \notin DOMAIN stops)]_vars
    /\ [][(~crashed' /\ (stops' # stops \/ stopOk' # stopOk))
             => conns' = conns]_vars

C12_Witness ==
    \E c \in DOMAIN conns :
        /\ conns[c].tunnel \in stopOk
        /\ conns[c].piped
        /\ conns[c].inbound = "open" /\ conns[c].outbound = "open"
        /\ resp.step = "StopCallback" /\ resp.reqId = conns[c].tunnel

\* C13: a step in which a socket of one connection emits 'error' leaves
\* the registry, the listeners and every other connection unchanged.
C13_ErrorIsLocal ==
    [][\A c \in DOMAIN conns :
          (/\ c \in DOMAIN conns'
           /\ \/ (conns[c].inbound # "failed" /\ conns'[c].inbound = "failed")
              \/ (conns[c].outbound # "failed"
                    /\ conns'[c].outbound = "failed"))
          => (/\ UNCHANGED <<tunnels, listeners>>
              /\ \A d \in DOMAIN conns \ {c} :
                    d \in DOMAIN conns' /\ conns'[d] = conns[d])]_vars

C13_Witness ==
    \E c \in DOMAIN conns, d \in DOMAIN conns :
        /\ c # d
        /\ conns[c].tunnel = conns[d].tunnel
        /\ conns[c].tunnel \in DOMAIN listeners
        /\ conns[c].piped /\ conns[c].inbound = "failed"
        /\ conns[c].outbound = "open"
        /\ conns[d].piped /\ conns[d].inbound = "open"
        /\ conns[d].outbound = "open"

\* a is an initial segment of b
IsPrefix(a, b) ==
    Len(a) <= Len(b) /\ \A i \in 1..Len(a) : a[i] = b[i]

\* the peer of socket state s has ended its sending direction
GotFin(s) == s \in {"fin", "endedfin", "closed"}

\* C11: in each direction of a relayed connection the bytes written to the
\* destination socket are an initial segment of the bytes received on the
\* source socket, and once the source's peer has ended its sending
\* direction they become the whole of them, unless one of the two sockets
\* fails.
C11_RelayedBytes ==
    /\ [](\A c \in DOMAIN conns :
             /\ IsPrefix(conns[c].up.dlvd, conns[c].up.rcvd)
             /\ IsPrefix(conns[c].down.dlvd, conns[c].down.rcvd))
    /\ \A c \in ByteConnIds :
          (c \in DOMAIN conns /\ conns[c].piped /\ GotFin(conns[c].inbound))
             ~> (\/ c \notin DOMAIN conns
                 \/ Drained(conns[c].up)
                 \/ "failed" \in {conns[c].inbound, conns[c].outbound})
    /\ \A c \in ByteConnIds :
          (c \in DOMAIN conns /\ conns[c].piped /\ GotFin(conns[c].outbound))
             ~> (\/ c \notin DOMAIN conns
                 \/ Drained(conns[c].down)
                 \/ "failed" \in {conns[c].inbound, conns[c].outbound})

\* the socket is closed or destroyed
SocketClosed(s) == s \in {"closed", "failed"}

\* the server has ended the writable side of the socket
WriteEnded(s) == s \in {"ended", "endedfin", "closed"}

\* C17: once a socket of an established relay is closed or has failed,
\* both its sockets are eventually closed; and the server ends the writable
\* side of a socket only when every byte received for it has been written
\* to it.
C17_RelayTermination ==
    /\ \A c \in ByteConnIds :
          (/\ c \in DOMAIN conns
           /\ conns[c].piped
           /\ \/ SocketClosed(conns[c].inbound)
              \/ SocketClosed(conns[c].outbound))
             ~> (\/ c \notin DOMAIN conns
                 \/ /\ SocketClosed(conns[c].inbound)
                    /\ SocketClosed(conns[c].outbound))
    /\ [](\A c \in DOMAIN conns :
             /\ (conns[c].piped /\ WriteEnded(conns[c].inbound))
                   => Drained(conns[c].down)
             /\ (conns[c].piped /\ WriteEnded(conns[c].outbound))
                   => Drained(conns[c].up))

====
